---- MODULE Spec2Model ----
(***************************************************************************)
(* A model of the CHIP-8 interpreter core of rusty_chip8 (src/src/cpu.rs)  *)
(* and of the host loop that drives it (src/src/main.rs).                  *)
(*                                                                         *)
(* The machine state is the struct CPU, one variable per field.  A Rust    *)
(* panic (index out of bounds, explicit panic!, arithmetic overflow in a   *)
(* build with overflow checks) is recorded in the variable fault; the      *)
(* fields keep the values they had when the panic was raised, and no       *)
(* operation runs after it.                                                *)
(*                                                                         *)
(* The two large arrays are held by their content that is not the default: *)
(* memory is the function from the addresses of the bytes that are not 0   *)
(* to those bytes, screen is the set of the indices of the lit cells.      *)
(* Every array of 4096 bytes is one such function and every array of 2048  *)
(* booleans one such set; MemGet, MemSet, Lit and Toggle are the reads and *)
(* writes of the arrays, and the bounds checks of the indexing are stated  *)
(* where the code indexes.                                                 *)
(***************************************************************************)
EXTENDS Integers, Sequences, FiniteSets, TLC

VARIABLES
    pc,               \* CPU.pc: u16
    memory,           \* CPU.memory: [u8; 4096], as the bytes that are not 0
    screen,           \* CPU.screen: [bool; 64 * 32], as the set of lit cells
    v_registers,      \* CPU.v_registers: [u8; 16]
    index_register,   \* CPU.index_register: u16
    stack,            \* CPU.stack: [u16; 16]
    stack_pointer,    \* CPU.stack_pointer: u16
    keys,             \* CPU.keys: [bool; 16]
    delay_timer,      \* CPU.delay_timer: u8
    sound_timer,      \* CPU.sound_timer: u8
    fault,            \* "none", or the kind of the panic that ended the run
    overflow_checks,  \* the build: TRUE when integer overflow panics (debug),
                      \* FALSE when it wraps (release)
    last,             \* the last operation: what it was, the word it executed,
                      \* the memory indices it used, what it returned
    host              \* the position of the caller (test harness or main loop)

cpuvars == <<pc, memory, screen, v_registers, index_register, stack,
             stack_pointer, keys, delay_timer, sound_timer>>

vars == <<pc, memory, screen, v_registers, index_register, stack,
          stack_pointer, keys, delay_timer, sound_timer, fault,
          overflow_checks, last, host>>

----------------------------------------------------------------------------
(* Program constants, src/src/cpu.rs:3-13 *)

SCREEN_WIDTH == 64
SCREEN_HEIGHT == 32
MEMORY_SIZE == 4096
NUM_V_REGISTERS == 16
STACK_SIZE == 16
NUM_KEYS == 16
START_ADDRESS == 512
FONTSET_SIZE == 80

U8 == 256
U16 == 65536

FONTSET ==
    << 240, 144, 144, 144, 240,
        32,  96,  32,  32, 112,
       240,  16, 240, 128, 240,
       240,  16, 240,  16, 240,
       144, 144, 240,  16,  16,
       240, 128, 240,  16, 240,
       240, 128, 240, 144, 240,
       240,  16,  32,  64,  64,
       240, 144, 240, 144, 240,
       240, 144, 240,  16, 240,
       240, 144, 240, 144, 144,
       224, 144, 224, 144, 224,
       240, 128, 128, 128, 240,
       224, 144, 144, 144, 224,
       240, 128, 240, 128, 240,
       240, 128, 240, 128, 128 >>

----------------------------------------------------------------------------
(* Bit operations on bytes and words *)

RECURSIVE BitAnd(_, _)
BitAnd(a, b) ==
    IF a = 0 \/ b = 0 THEN 0
    ELSE (a % 2) * (b % 2) + 2 * BitAnd(a \div 2, b \div 2)

RECURSIVE BitOr(_, _)
BitOr(a, b) ==
    IF a = 0 THEN b
    ELSE IF b = 0 THEN a
    ELSE (IF a % 2 = 1 \/ b % 2 = 1 THEN 1 ELSE 0) + 2 * BitOr(a \div 2, b \div 2)

RECURSIVE BitXor(_, _)
BitXor(a, b) ==
    IF a = 0 THEN b
    ELSE IF b = 0 THEN a
    ELSE ((a + b) % 2) + 2 * BitXor(a \div 2, b \div 2)

----------------------------------------------------------------------------
(* The struct CPU as a record, and the record the operations work on: the  *)
(* fields of CPU, the panic raised so far and the memory indices used.     *)

(* self.memory[a], for a in bounds *)
MemGet(mem, a) == IF a \in DOMAIN mem THEN mem[a] ELSE 0

(* self.memory[a] = val, for a in bounds *)
MemSet(mem, a, val) ==
    IF val = 0
    THEN [x \in DOMAIN mem \ {a} |-> mem[x]]
    ELSE [x \in DOMAIN mem \cup {a} |-> IF x = a THEN val ELSE mem[x]]

(* self.screen[index] *)
Lit(scr, index) == index \in scr

(* self.screen[index] ^= true *)
Toggle(scr, index) == IF index \in scr THEN scr \ {index} ELSE scr \cup {index}

(* [0; MEMORY_SIZE] with copy_from_slice(&FONTSET) on its first bytes; no   *)
(* byte of FONTSET is 0                                                     *)
FontMemory == [a \in 0 .. FONTSET_SIZE - 1 |-> FONTSET[a + 1]]

NoLast == [act |-> "none", op |-> 0, acc |-> <<>>, ret |-> 0]

new ==
    [ pc |-> START_ADDRESS,
      memory |-> FontMemory,
      screen |-> {},
      v_registers |-> [r \in 0 .. NUM_V_REGISTERS - 1 |-> 0],
      index_register |-> 0,
      stack |-> [s \in 0 .. STACK_SIZE - 1 |-> 0],
      stack_pointer |-> 0,
      keys |-> [k \in 0 .. NUM_KEYS - 1 |-> FALSE],
      delay_timer |-> 0,
      sound_timer |-> 0 ]

Self ==
    [ pc |-> pc, memory |-> memory, screen |-> screen,
      v_registers |-> v_registers, index_register |-> index_register,
      stack |-> stack, stack_pointer |-> stack_pointer, keys |-> keys,
      delay_timer |-> delay_timer, sound_timer |-> sound_timer,
      panic |-> "none", acc |-> <<>>, ret |-> 0 ]

IsCpu(c) ==
    /\ pc = c.pc
    /\ memory = c.memory
    /\ screen = c.screen
    /\ v_registers = c.v_registers
    /\ index_register = c.index_register
    /\ stack = c.stack
    /\ stack_pointer = c.stack_pointer
    /\ keys = c.keys
    /\ delay_timer = c.delay_timer
    /\ sound_timer = c.sound_timer

SetCpu(c) ==
    /\ pc' = c.pc
    /\ memory' = c.memory
    /\ screen' = c.screen
    /\ v_registers' = c.v_registers
    /\ index_register' = c.index_register
    /\ stack' = c.stack
    /\ stack_pointer' = c.stack_pointer
    /\ keys' = c.keys
    /\ delay_timer' = c.delay_timer
    /\ sound_timer' = c.sound_timer

----------------------------------------------------------------------------
(* Panics and the log of memory indices.  An entry of acc holds the index  *)
(* the indexing expression used (idx) and the address it stands for in     *)
(* unbounded arithmetic (ideal); the entry of an index that is out of      *)
(* bounds is logged too, and the panic follows it.                         *)

Panic(c, kind) == [c EXCEPT !.panic = kind]

Log(c, ideal, idx) == [c EXCEPT !.acc = Append(@, [ideal |-> ideal, idx |-> idx])]

SetV(c, x, val) == [c EXCEPT !.v_registers[x] = val]

(* self.pc += n on a u16 *)
AddPc(c, n) ==
    IF c.pc + n >= U16
    THEN IF overflow_checks THEN Panic(c, "overflow")
         ELSE [c EXCEPT !.pc = (c.pc + n) % U16]
    ELSE [c EXCEPT !.pc = c.pc + n]

(* self.pc -= n on a u16 *)
SubPc(c, n) ==
    IF c.pc < n
    THEN IF overflow_checks THEN Panic(c, "overflow")
         ELSE [c EXCEPT !.pc = (c.pc + U16 - n) % U16]
    ELSE [c EXCEPT !.pc = c.pc - n]

----------------------------------------------------------------------------
(* CPU::fetch, cpu.rs:92-97 *)

(* fetch with the second index reduced modulo the memory size *)
fetch_wrapping(c) ==
    LET c1 == Log(c, c.pc, c.pc) IN
    IF c.pc >= MEMORY_SIZE THEN Panic(c1, "index_out_of_bounds")
    ELSE LET lo == (c.pc + 1) % MEMORY_SIZE
             c2 == Log(c1, c.pc + 1, lo)
             c3 == AddPc(c2, 1)
         IN  [c3 EXCEPT !.ret = MemGet(c.memory, c.pc) * 256 + MemGet(c.memory, lo)]

fetch(c) ==
    LET c1 == Log(c, c.pc, c.pc) IN
    IF c.pc >= MEMORY_SIZE THEN Panic(c1, "index_out_of_bounds")
    ELSE IF c.pc + 1 >= U16 /\ overflow_checks THEN Panic(c1, "overflow")
    ELSE LET lo == (c.pc + 1) % U16
             c2 == Log(c1, c.pc + 1, lo)
         IN  IF lo >= MEMORY_SIZE THEN Panic(c2, "index_out_of_bounds")
             ELSE LET higher_byte == MemGet(c.memory, c.pc)
                      lower_byte == MemGet(c.memory, lo)
                      c3 == AddPc(c2, 1)
                  IN  IF c3.panic # "none" THEN c3
                      ELSE [c3 EXCEPT !.ret = higher_byte * 256 + lower_byte]

----------------------------------------------------------------------------
(* Stack operations, cpu.rs:426-438 *)

push(c, val) ==
    IF c.stack_pointer >= STACK_SIZE THEN Panic(c, "index_out_of_bounds")
    ELSE LET c1 == [c EXCEPT !.stack[c.stack_pointer] = val,
                             !.stack_pointer = c.stack_pointer + 1]
         IN  IF c1.stack_pointer > STACK_SIZE THEN Panic(c1, "stack_overflow")
             ELSE c1

(* pop that reads the slot before it steps the stack pointer back *)
pop_read_first(c) ==
    IF c.stack_pointer = 0 \/ c.stack_pointer >= STACK_SIZE
    THEN Panic(c, "index_out_of_bounds")
    ELSE [c EXCEPT !.ret = c.stack[c.stack_pointer],
                   !.stack_pointer = c.stack_pointer - 1]

pop(c) ==
    IF c.stack_pointer = 0
    THEN IF overflow_checks THEN Panic(c, "overflow")
         ELSE Panic([c EXCEPT !.stack_pointer = U16 - 1], "index_out_of_bounds")
    ELSE LET c1 == [c EXCEPT !.stack_pointer = c.stack_pointer - 1] IN
         IF c1.stack_pointer >= STACK_SIZE THEN Panic(c1, "index_out_of_bounds")
         ELSE [c1 EXCEPT !.ret = c1.stack[c1.stack_pointer]]

----------------------------------------------------------------------------
(* The instructions, the arms of the match in CPU::execute, cpu.rs:105-407 *)

Nnn(op) == op % 4096
Nn(op) == op % 256
digit_one(op) == op \div 4096
digit_two(op) == (op \div 256) % 16
digit_three(op) == (op \div 16) % 16
digit_four(op) == op % 16

op_nop(c) == c

(* CLS that clears SCREEN_WIDTH cells, the first row *)
op_cls_first_row(c) ==
    [c EXCEPT !.screen = @ \ (0 .. SCREEN_WIDTH - 1)]

op_cls(c) ==
    [c EXCEPT !.screen = {}]

op_ret(c) ==
    LET c1 == pop(c) IN
    IF c1.panic # "none" THEN c1 ELSE [c1 EXCEPT !.pc = c1.ret]

op_jmp(c, op) == [c EXCEPT !.pc = Nnn(op)]

op_call(c, op) ==
    LET c1 == push(c, c.pc) IN
    IF c1.panic # "none" THEN c1 ELSE [c1 EXCEPT !.pc = Nnn(op)]

op_skip_eq_nn(c, op) ==
    IF c.v_registers[digit_two(op)] = Nn(op) THEN AddPc(c, 2) ELSE c

op_skip_ne_nn(c, op) ==
    IF c.v_registers[digit_two(op)] # Nn(op) THEN AddPc(c, 2) ELSE c

op_skip_eq_vy(c, op) ==
    IF c.v_registers[digit_two(op)] = c.v_registers[digit_three(op)]
    THEN AddPc(c, 2) ELSE c

op_set_nn(c, op) == SetV(c, digit_two(op), Nn(op))

op_add_nn(c, op) ==
    SetV(c, digit_two(op), (c.v_registers[digit_two(op)] + Nn(op)) % U8)

op_set_vy(c, op) == SetV(c, digit_two(op), c.v_registers[digit_three(op)])

op_or(c, op) ==
    SetV(c, digit_two(op),
         BitOr(c.v_registers[digit_two(op)], c.v_registers[digit_three(op)]))

op_and(c, op) ==
    SetV(c, digit_two(op),
         BitAnd(c.v_registers[digit_two(op)], c.v_registers[digit_three(op)]))

op_xor(c, op) ==
    SetV(c, digit_two(op),
         BitXor(c.v_registers[digit_two(op)], c.v_registers[digit_three(op)]))

(* the flag is written first, the result second *)
op_add_vy(c, op) ==
    LET sum == c.v_registers[digit_two(op)] + c.v_registers[digit_three(op)]
        overflow == sum >= U8
    IN  SetV(SetV(c, 15, IF overflow THEN 1 ELSE 0), digit_two(op), sum % U8)

(* VX -= VY with VF set on a borrow, not on its absence *)
op_sub_vy_borrow_flag(c, op) ==
    LET diff == c.v_registers[digit_two(op)] - c.v_registers[digit_three(op)]
        underflow == diff < 0
    IN  SetV(SetV(c, 15, IF underflow THEN 1 ELSE 0), digit_two(op),
             (diff + U8) % U8)

op_sub_vy(c, op) ==
    LET diff == c.v_registers[digit_two(op)] - c.v_registers[digit_three(op)]
        underflow == diff < 0
    IN  SetV(SetV(c, 15, IF underflow THEN 0 ELSE 1), digit_two(op),
             (diff + U8) % U8)

(* VX >> 1 that shifts VY into VX *)
op_shr_from_vy(c, op) ==
    LET rightmost_bit == c.v_registers[digit_three(op)] % 2 IN
    SetV(SetV(c, digit_two(op), c.v_registers[digit_three(op)] \div 2),
         15, rightmost_bit)

(* the result is written first, the flag second *)
op_shr(c, op) ==
    LET rightmost_bit == c.v_registers[digit_two(op)] % 2 IN
    SetV(SetV(c, digit_two(op), c.v_registers[digit_two(op)] \div 2),
         15, rightmost_bit)

op_subn_vy(c, op) ==
    LET diff == c.v_registers[digit_three(op)] - c.v_registers[digit_two(op)]
        underflow == diff < 0
    IN  SetV(SetV(c, 15, IF underflow THEN 0 ELSE 1), digit_two(op),
             (diff + U8) % U8)

op_shl(c, op) ==
    LET leftmost_bit == c.v_registers[digit_two(op)] \div 128 IN
    SetV(SetV(c, digit_two(op), (c.v_registers[digit_two(op)] * 2) % U8),
         15, leftmost_bit)

(* SKIP VX != VY with the test of SKIP VX == VY *)
op_skip_ne_vy_as_eq(c, op) ==
    IF c.v_registers[digit_two(op)] = c.v_registers[digit_three(op)]
    THEN AddPc(c, 2) ELSE c

op_skip_ne_vy(c, op) ==
    IF c.v_registers[digit_two(op)] # c.v_registers[digit_three(op)]
    THEN AddPc(c, 2) ELSE c

op_set_i(c, op) == [c EXCEPT !.index_register = Nnn(op)]

op_jmp_v0(c, op) == [c EXCEPT !.pc = c.v_registers[0] + Nnn(op)]

(* rng is the byte rand::random() returned *)
op_rand(c, op, rng) == SetV(c, digit_two(op), BitAnd(rng, Nn(op)))

(* the inner loop of DRAW with the cell set, not toggled *)
RECURSIVE draw_cols_overwrite(_, _, _, _, _, _)
draw_cols_overwrite(d, row_pixels, draw_x, draw_y, current_y, current_x) ==
    IF current_x = 8 THEN d
    ELSE LET set == (row_pixels \div (2 ^ (7 - current_x))) % 2 = 1
             x == (draw_x + current_x) % SCREEN_WIDTH
             y == (draw_y + current_y) % SCREEN_HEIGHT
             index == x + SCREEN_WIDTH * y
             d1 == IF set
                   THEN [screen |-> d.screen \cup {index},
                         flipped |-> d.flipped \/ Lit(d.screen, index)]
                   ELSE d
         IN  draw_cols_overwrite(d1, row_pixels, draw_x, draw_y, current_y,
                                 current_x + 1)

(* the inner loop of DRAW with the column not reduced modulo the width *)
RECURSIVE draw_cols_nowrap(_, _, _, _, _, _)
draw_cols_nowrap(d, row_pixels, draw_x, draw_y, current_y, current_x) ==
    IF current_x = 8 THEN d
    ELSE LET set == (row_pixels \div (2 ^ (7 - current_x))) % 2 = 1
             x == draw_x + current_x
             y == (draw_y + current_y) % SCREEN_HEIGHT
             index == (x + SCREEN_WIDTH * y) % (SCREEN_WIDTH * SCREEN_HEIGHT)
             d1 == IF set
                   THEN [screen |-> Toggle(d.screen, index),
                         flipped |-> d.flipped \/ Lit(d.screen, index)]
                   ELSE d
         IN  draw_cols_nowrap(d1, row_pixels, draw_x, draw_y, current_y,
                              current_x + 1)

(* DRAW: the inner loop over the 8 columns of one sprite row; d holds the  *)
(* screen and pixels_flipped                                               *)
RECURSIVE draw_cols(_, _, _, _, _, _)
draw_cols(d, row_pixels, draw_x, draw_y, current_y, current_x) ==
    IF current_x = 8 THEN d
    ELSE LET set == (row_pixels \div (2 ^ (7 - current_x))) % 2 = 1
             x == (draw_x + current_x) % SCREEN_WIDTH
             y == (draw_y + current_y) % SCREEN_HEIGHT
             index == x + SCREEN_WIDTH * y
             d1 == IF set
                   THEN [screen |-> Toggle(d.screen, index),
                         flipped |-> d.flipped \/ Lit(d.screen, index)]
                   ELSE d
         IN  draw_cols(d1, row_pixels, draw_x, draw_y, current_y, current_x + 1)

(* DRAW: the outer loop over the rows, then the write of VF *)
RECURSIVE draw_rows(_, _, _, _, _, _)
draw_rows(c, flipped, draw_x, draw_y, height, current_y) ==
    IF current_y = height
    THEN SetV(c, 15, IF flipped THEN 1 ELSE 0)
    ELSE LET sum == c.index_register + current_y IN
         IF sum >= U16 /\ overflow_checks THEN Panic(c, "overflow")
         ELSE LET address == sum % U16
                  c1 == Log(c, sum, address)
              IN  IF address >= MEMORY_SIZE
                  THEN Panic(c1, "index_out_of_bounds")
                  ELSE LET d == draw_cols([screen |-> c.screen, flipped |-> flipped],
                                          MemGet(c.memory, address), draw_x, draw_y,
                                          current_y, 0)
                       IN  draw_rows([c1 EXCEPT !.screen = d.screen], d.flipped,
                                     draw_x, draw_y, height, current_y + 1)

op_draw(c, op) ==
    draw_rows(c, FALSE, c.v_registers[digit_two(op)],
              c.v_registers[digit_three(op)], digit_four(op), 0)

(* the key index taken from the low 4 bits of Vx *)
op_skip_key_masked(c, op) ==
    LET k == c.v_registers[digit_two(op)] % NUM_KEYS IN
    IF c.keys[k] THEN AddPc(c, 2) ELSE c

op_skip_key(c, op) ==
    LET k == c.v_registers[digit_two(op)] IN
    IF k >= NUM_KEYS THEN Panic(c, "index_out_of_bounds")
    ELSE IF c.keys[k] THEN AddPc(c, 2) ELSE c

op_skip_not_key(c, op) ==
    LET k == c.v_registers[digit_two(op)] IN
    IF k >= NUM_KEYS THEN Panic(c, "index_out_of_bounds")
    ELSE IF ~c.keys[k] THEN AddPc(c, 2) ELSE c

op_get_dt(c, op) == SetV(c, digit_two(op), c.delay_timer)

(* WAIT FOR KEY PRESS: the scan for i in 0..keys.len(), NUM_KEYS when no   *)
(* latch is set                                                            *)
RECURSIVE first_key(_, _)
first_key(ks, i) ==
    IF i = NUM_KEYS THEN NUM_KEYS
    ELSE IF ks[i] THEN i
    ELSE first_key(ks, i + 1)

op_wait_key(c, op) ==
    LET i == first_key(c.keys, 0)
        pressed == i < NUM_KEYS
    IN  IF pressed THEN SetV(c, digit_two(op), i) ELSE SubPc(c, 2)

op_set_dt(c, op) == [c EXCEPT !.delay_timer = c.v_registers[digit_two(op)]]

op_set_st(c, op) == [c EXCEPT !.sound_timer = c.v_registers[digit_two(op)]]

op_add_i(c, op) ==
    [c EXCEPT !.index_register = (@ + c.v_registers[digit_two(op)]) % U16]

(* the font entry taken to be four bytes long *)
op_font_four_bytes(c, op) ==
    [c EXCEPT !.index_register = c.v_registers[digit_two(op)] * 4]

op_font(c, op) == [c EXCEPT !.index_register = c.v_registers[digit_two(op)] * 5]

(* BCD.  The code works on f32, binary floating point with a significand   *)
(* of 24 bits.  Every integer below 2^24 is an f32.  The quotient of two    *)
(* f32 is the f32 nearest to the exact quotient, ties to the even           *)
(* significand; the remainder of two f32 is exact.                          *)

(* for 0 < v < 256 * d: the e with 2^e <= v / d < 2^(e + 1), searched       *)
(* downwards from e                                                         *)
RECURSIVE f32_exponent(_, _, _)
f32_exponent(v, d, e) ==
    IF e >= 0
    THEN IF d * 2 ^ e <= v THEN e ELSE f32_exponent(v, d, e - 1)
    ELSE IF d <= v * 2 ^ (0 - e) THEN e ELSE f32_exponent(v, d, e - 1)

(* v / d on f32, for integers 0 <= v < 256 and d in 1..100: the f32         *)
(* m / 2^s, m below 2^24                                                    *)
f32_div(v, d) ==
    IF v = 0 THEN [m |-> 0, s |-> 23]
    ELSE LET s == 23 - f32_exponent(v, d, 7)
             num == v * 2 ^ s
             q == num \div d
             r == num % d
         IN  [m |-> IF 2 * r > d \/ (2 * r = d /\ q % 2 = 1) THEN q + 1 ELSE q,
              s |-> s]

(* f32::round, as an integer: the nearest integer, ties away from 0 *)
f32_round(x) == (x.m + 2 ^ (x.s - 1)) \div 2 ^ x.s

(* f32::floor, as an integer *)
f32_floor(x) == x.m \div 2 ^ x.s

(* (v / d).floor() as u8 *)
f32_floor_div(v, d) == f32_floor(f32_div(v, d))

(* v % d on f32: exact, and for integers the integer remainder *)
f32_rem(v, d) == v % d

(* self.memory[(self.index_register + k) as usize] = val, the sum a u16 *)
mem_store16(c, k, val) ==
    LET sum == c.index_register + k IN
    IF sum >= U16 /\ overflow_checks THEN Panic(c, "overflow")
    ELSE LET address == sum % U16
             c1 == Log(c, sum, address)
         IN  IF address >= MEMORY_SIZE THEN Panic(c1, "index_out_of_bounds")
             ELSE [c1 EXCEPT !.memory = MemSet(@, address, val)]

op_bcd(c, op) ==
    LET vx_value == c.v_registers[digit_two(op)]
        hundreds == f32_floor_div(vx_value, 100)
        r100 == f32_rem(vx_value, 100)
        tens == f32_floor_div(r100, 10)
        ones == f32_rem(r100, 10)
        c1 == mem_store16(c, 0, hundreds)
        c2 == IF c1.panic # "none" THEN c1 ELSE mem_store16(c1, 1, tens)
    IN  IF c2.panic # "none" THEN c2 ELSE mem_store16(c2, 2, ones)

(* STORE V0 - VX: for i in 0..=vx, the index a usize *)
RECURSIVE store_loop(_, _, _)
store_loop(c, vx, i) ==
    IF i > vx THEN c
    ELSE LET address == c.index_register + i
             c1 == Log(c, address, address)
         IN  IF address >= MEMORY_SIZE THEN Panic(c1, "index_out_of_bounds")
             ELSE store_loop([c1 EXCEPT !.memory =
                                             MemSet(@, address, c.v_registers[i])],
                             vx, i + 1)

op_store(c, op) == store_loop(c, digit_two(op), 0)

(* the load loop over 0..vx, the upper bound left out *)
RECURSIVE load_loop_exclusive(_, _, _)
load_loop_exclusive(c, vx, i) ==
    IF i >= vx THEN c
    ELSE LET address == c.index_register + i
             c1 == Log(c, address, address)
         IN  IF address >= MEMORY_SIZE THEN Panic(c1, "index_out_of_bounds")
             ELSE load_loop_exclusive(SetV(c1, i, MemGet(c.memory, address)),
                                      vx, i + 1)

(* LOAD V0 - VX *)
RECURSIVE load_loop(_, _, _)
load_loop(c, vx, i) ==
    IF i > vx THEN c
    ELSE LET address == c.index_register + i
             c1 == Log(c, address, address)
         IN  IF address >= MEMORY_SIZE THEN Panic(c1, "index_out_of_bounds")
             ELSE load_loop(SetV(c1, i, MemGet(c.memory, address)), vx, i + 1)

op_load(c, op) == load_loop(c, digit_two(op), 0)

op_unknown(c, op) == Panic(c, "unknown_opcode")

----------------------------------------------------------------------------
(* CPU::execute, cpu.rs:99-408.  The match on the four digits: decode     *)
(* names the first arm that matches, in the order of the source, and       *)
(* execute runs that arm.                                                  *)

decode_0(op) ==
    IF digit_two(op) = 0 /\ digit_three(op) = 0 /\ digit_four(op) = 0 THEN "nop"
    ELSE IF digit_two(op) = 0 /\ digit_three(op) = 14 /\ digit_four(op) = 0 THEN "cls"
    ELSE IF digit_two(op) = 0 /\ digit_three(op) = 14 /\ digit_four(op) = 14 THEN "ret"
    ELSE "unknown"

(* the arm (5, _, _, 0) with its last digit left open *)
decode_5_any(op) == "skip_eq_vy"

decode_5(op) == IF digit_four(op) = 0 THEN "skip_eq_vy" ELSE "unknown"

decode_8(op) ==
    CASE digit_four(op) = 0 -> "set_vy"
      [] digit_four(op) = 1 -> "or"
      [] digit_four(op) = 2 -> "and"
      [] digit_four(op) = 3 -> "xor"
      [] digit_four(op) = 4 -> "add_vy"
      [] digit_four(op) = 5 -> "sub_vy"
      [] digit_four(op) = 6 -> "shr"
      [] digit_four(op) = 7 -> "subn_vy"
      [] digit_four(op) = 14 -> "shl"
      [] OTHER -> "unknown"

decode_9(op) == IF digit_four(op) = 0 THEN "skip_ne_vy" ELSE "unknown"

decode_E(op) ==
    IF digit_three(op) = 9 /\ digit_four(op) = 14 THEN "skip_key"
    ELSE IF digit_three(op) = 10 /\ digit_four(op) = 1 THEN "skip_not_key"
    ELSE "unknown"

decode_F(op) ==
    LET d3 == digit_three(op)
        d4 == digit_four(op)
    IN  CASE d3 = 0 /\ d4 = 7 -> "get_dt"
          [] d3 = 0 /\ d4 = 10 -> "wait_key"
          [] d3 = 1 /\ d4 = 5 -> "set_dt"
          [] d3 = 1 /\ d4 = 8 -> "set_st"
          [] d3 = 1 /\ d4 = 14 -> "add_i"
          [] d3 = 2 /\ d4 = 9 -> "font"
          [] d3 = 3 /\ d4 = 3 -> "bcd"
          [] d3 = 5 /\ d4 = 5 -> "store"
          [] d3 = 6 /\ d4 = 5 -> "load"
          [] OTHER -> "unknown"

decode(op) ==
    CASE digit_one(op) = 0 -> decode_0(op)
      [] digit_one(op) = 1 -> "jmp"
      [] digit_one(op) = 2 -> "call"
      [] digit_one(op) = 3 -> "skip_eq_nn"
      [] digit_one(op) = 4 -> "skip_ne_nn"
      [] digit_one(op) = 5 -> decode_5(op)
      [] digit_one(op) = 6 -> "set_nn"
      [] digit_one(op) = 7 -> "add_nn"
      [] digit_one(op) = 8 -> decode_8(op)
      [] digit_one(op) = 9 -> decode_9(op)
      [] digit_one(op) = 10 -> "set_i"
      [] digit_one(op) = 11 -> "jmp_v0"
      [] digit_one(op) = 12 -> "rand"
      [] digit_one(op) = 13 -> "draw"
      [] digit_one(op) = 14 -> decode_E(op)
      [] digit_one(op) = 15 -> decode_F(op)

execute(c, op, rng) ==
    LET arm == decode(op) IN
    CASE arm = "nop" -> op_nop(c)
      [] arm = "cls" -> op_cls(c)
      [] arm = "ret" -> op_ret(c)
      [] arm = "jmp" -> op_jmp(c, op)
      [] arm = "call" -> op_call(c, op)
      [] arm = "skip_eq_nn" -> op_skip_eq_nn(c, op)
      [] arm = "skip_ne_nn" -> op_skip_ne_nn(c, op)
      [] arm = "skip_eq_vy" -> op_skip_eq_vy(c, op)
      [] arm = "set_nn" -> op_set_nn(c, op)
      [] arm = "add_nn" -> op_add_nn(c, op)
      [] arm = "set_vy" -> op_set_vy(c, op)
      [] arm = "or" -> op_or(c, op)
      [] arm = "and" -> op_and(c, op)
      [] arm = "xor" -> op_xor(c, op)
      [] arm = "add_vy" -> op_add_vy(c, op)
      [] arm = "sub_vy" -> op_sub_vy(c, op)
      [] arm = "shr" -> op_shr(c, op)
      [] arm = "subn_vy" -> op_subn_vy(c, op)
      [] arm = "shl" -> op_shl(c, op)
      [] arm = "skip_ne_vy" -> op_skip_ne_vy(c, op)
      [] arm = "set_i" -> op_set_i(c, op)
      [] arm = "jmp_v0" -> op_jmp_v0(c, op)
      [] arm = "rand" -> op_rand(c, op, rng)
      [] arm = "draw" -> op_draw(c, op)
      [] arm = "skip_key" -> op_skip_key(c, op)
      [] arm = "skip_not_key" -> op_skip_not_key(c, op)
      [] arm = "get_dt" -> op_get_dt(c, op)
      [] arm = "wait_key" -> op_wait_key(c, op)
      [] arm = "set_dt" -> op_set_dt(c, op)
      [] arm = "set_st" -> op_set_st(c, op)
      [] arm = "add_i" -> op_add_i(c, op)
      [] arm = "font" -> op_font(c, op)
      [] arm = "bcd" -> op_bcd(c, op)
      [] arm = "store" -> op_store(c, op)
      [] arm = "load" -> op_load(c, op)
      [] OTHER -> op_unknown(c, op)

(* CPU::tick, cpu.rs:83-86 *)
tick(c, rng) ==
    LET f == fetch(c) IN
    IF f.panic # "none" THEN f ELSE execute(f, f.ret, rng)

(* tick_timers without the tests for zero, on u8 that wrap *)
tick_timers_unguarded(c) ==
    [c EXCEPT !.delay_timer = (@ + U8 - 1) % U8,
              !.sound_timer = (@ + U8 - 1) % U8]

(* CPU::tick_timers, cpu.rs:410-422 *)
tick_timers(c) ==
    LET c1 == IF c.delay_timer > 0 THEN [c EXCEPT !.delay_timer = @ - 1] ELSE c
    IN  IF c1.sound_timer > 0 THEN [c1 EXCEPT !.sound_timer = @ - 1] ELSE c1

(* CPU::keypress, cpu.rs:88-90 *)
keypress(c, index, pressed) ==
    IF index >= NUM_KEYS THEN Panic(c, "index_out_of_bounds")
    ELSE [c EXCEPT !.keys[index] = pressed]

(* reset that leaves the stack slots as they are *)
reset_keeps_stack(c) ==
    [c EXCEPT !.pc = START_ADDRESS,
              !.memory = FontMemory,
              !.screen = {},
              !.v_registers = [r \in 0 .. NUM_V_REGISTERS - 1 |-> 0],
              !.index_register = 0,
              !.stack_pointer = 0,
              !.keys = [k \in 0 .. NUM_KEYS - 1 |-> FALSE],
              !.delay_timer = 0,
              !.sound_timer = 0]

(* CPU::reset, cpu.rs:68-81 *)
reset(c) ==
    [c EXCEPT !.pc = START_ADDRESS,
              !.memory = FontMemory,
              !.screen = {},
              !.v_registers = [r \in 0 .. NUM_V_REGISTERS - 1 |-> 0],
              !.index_register = 0,
              !.stack_pointer = 0,
              !.stack = [s \in 0 .. STACK_SIZE - 1 |-> 0],
              !.keys = [k \in 0 .. NUM_KEYS - 1 |-> FALSE],
              !.delay_timer = 0,
              !.sound_timer = 0]

(* load that writes the image from address 0 on *)
load_at_zero(c, data) ==
    IF Len(data) > MEMORY_SIZE - START_ADDRESS THEN Panic(c, "rom_too_large")
    ELSE LET byte(a) == IF a < Len(data) THEN data[a + 1] ELSE MemGet(c.memory, a)
         IN  [c EXCEPT !.pc = START_ADDRESS,
                       !.memory = [a \in {x \in 0 .. MEMORY_SIZE - 1 : byte(x) # 0}
                                     |-> byte(a)]]

(* CPU::load, called at main.rs:41; its body is not in cpu.rs.  From the    *)
(* interface description: the bytes are written verbatim from 0x200 on, PC  *)
(* is set to 0x200, and an image that does not fit is refused.              *)
load(c, data) ==
    IF Len(data) > MEMORY_SIZE - START_ADDRESS THEN Panic(c, "rom_too_large")
    ELSE LET byte(a) == IF a >= START_ADDRESS /\ a < START_ADDRESS + Len(data)
                        THEN data[a - START_ADDRESS + 1]
                        ELSE MemGet(c.memory, a)
         IN  [c EXCEPT !.pc = START_ADDRESS,
                       !.memory = [a \in {x \in 0 .. MEMORY_SIZE - 1 : byte(x) # 0}
                                     |-> byte(a)]]

----------------------------------------------------------------------------
(* The caller.  Bounds of the explored runs. *)

MaxTicks == 18

(* the bytes rand::random() may return *)
RandBytes == {1, 3}

(* the keys the host presses and releases *)
HostKeys == {0, 3, 15}

(* a ROM image of len bytes: the bytes of parts at their offsets, 0 elsewhere *)
Image(len, parts) ==
    [i \in 1 .. len |->
        IF \E q \in DOMAIN parts :
              i - 1 >= parts[q][1] /\ i - 1 < parts[q][1] + Len(parts[q][2])
        THEN LET q == CHOOSE q \in DOMAIN parts :
                         i - 1 >= parts[q][1] /\ i - 1 < parts[q][1] + Len(parts[q][2])
             IN  parts[q][2][i - parts[q][1]]
        ELSE 0]

(* ROM images, as the bytes of the file.  fetch advances PC by one byte, so *)
(* the words executed overlap: bytes b0 b1 b2 run as b0b1, then b1b2.       *)
RomNops == <<0, 0, 0, 0>>                   \* 0000 0000 ...
RomSets == <<96, 97, 98, 99>>               \* 6061 6162 6263 6300 0000 ...
RomWaitKey == <<240, 10>>                   \* F00A
RomRecurse == <<34, 0>>                     \* 2200: call 0x200, again and again
RomReturn == <<0, 238>>                     \* 00EE on an empty stack
RomStoreEnd == <<96, 175, 255, 85>>         \* 60AF AFFF FF55: store at 0xFFF
RomJumpEnd == <<31, 255>>                   \* 1FFF: PC = 0xFFF
RomCallRet == <<34, 3, 0, 0, 238>>          \* 2203, 00EE at 0x203, back to 0x201
(* C013 at 0x200, 1300; F015 at 0x300, 1500; F018 at 0x500, 1800 *)
RomTimers ==
    Image(771, <<  <<0, <<192, 19, 0>> >>,
                   <<256, <<240, 21, 0>> >>,
                   <<768, <<240, 24, 0>> >>  >>)

(* C013 at 0x200, 1300; D015 at 0x300, 1500; F015 at 0x500, 1510; 2520 at   *)
(* 0x510; F018 at 0x520, 1800; A31A at 0x800, 1A00: a register, the screen, *)
(* both timers, the stack and I are written                                 *)
RomAllFields ==
    Image(1539, <<  <<0, <<192, 19, 0>> >>,
                    <<256, <<208, 21, 0>> >>,
                    <<768, <<240, 21, 16>> >>,
                    <<784, <<37, 32>> >>,
                    <<800, <<240, 24, 0>> >>,
                    <<1536, <<163, 26, 0>> >>  >>)

(* C013 at 0x200, 1300; F055 at 0x300, 55F0, F029 at 0x304, 2900: V0 is     *)
(* stored at I = 0, then I is set to the font entry of V0                   *)
RomFontStore ==
    Image(774, <<  <<0, <<192, 19, 0>> >>,
                   <<256, <<240, 85, 240, 0, 240, 41>> >>  >>)

RomFontBcd == <<240, 51>>                   \* F033 3300: the digits of V0 at I = 0

Roms ==
    { RomNops, RomSets, RomWaitKey, RomRecurse, RomReturn, RomStoreEnd,
      RomJumpEnd, RomCallRet, RomTimers, RomAllFields, RomFontStore,
      RomFontBcd }

Done(act, op, r) ==
    /\ SetCpu(r)
    /\ fault' = r.panic
    /\ last' = [act |-> act, op |-> op, acc |-> r.acc, ret |-> r.ret]
    /\ UNCHANGED overflow_checks

Init ==
    /\ IsCpu(new)
    /\ fault = "none"
    /\ overflow_checks \in BOOLEAN
    /\ last = NoLast
    /\ host = [loaded |-> FALSE, n |-> 0]
(* main.rs:36-41: the host loads the ROM into the machine it constructed *)
Load ==
    /\ fault = "none"
    /\ ~host.loaded
    /\ \E rom \in Roms :
          /\ Done("load", 0, load(Self, rom))
          /\ host' = [loaded |-> TRUE, n |-> 0]

(* one step: CPU::tick *)
Tick ==
    /\ fault = "none"
    /\ host.loaded
    /\ host.n < MaxTicks
    /\ \E rng \in RandBytes :
          LET f == fetch(Self) IN
          Done("tick", IF f.panic = "none" THEN f.ret ELSE -1, tick(Self, rng))
    /\ host' = [host EXCEPT !.n = @ + 1]

(* one timer tick: CPU::tick_timers *)
TickTimers ==
    /\ fault = "none"
    /\ Done("tick_timers", 0, tick_timers(Self))
    /\ UNCHANGED host

(* a key event: CPU::keypress *)
Keypress ==
    /\ fault = "none"
    /\ \E index \in HostKeys, pressed \in BOOLEAN :
          Done("keypress", index, keypress(Self, index, pressed))
    /\ UNCHANGED host

(* CPU::reset *)
Reset ==
    /\ fault = "none"
    /\ Done("reset", 0, reset(Self))
    /\ host' = [loaded |-> FALSE, n |-> 0]

Next == Load \/ Tick \/ TickTimers \/ Keypress \/ Reset

Spec == Init /\ [][Next]_vars
----------------------------------------------------------------------------
(* Claims about one step of the running machine, checked under Spec *)

(* the word at PC, as fetch assembles it *)
WordAt(a) == MemGet(memory, a) * 256 + MemGet(memory, a + 1)

(* whether the instruction op, executed in the current state, is a jump, a  *)
(* call, a return, a skip that is taken or a key-wait with no key pressed   *)
Diverts(op) ==
    LET arm == decode(op)
        vx == v_registers[digit_two(op)]
        vy == v_registers[digit_three(op)]
    IN  \/ arm \in {"jmp", "jmp_v0", "call", "ret"}
        \/ arm = "skip_eq_nn" /\ vx = Nn(op)
        \/ arm = "skip_ne_nn" /\ vx # Nn(op)
        \/ arm = "skip_eq_vy" /\ vx = vy
        \/ arm = "skip_ne_vy" /\ vx # vy
        \/ arm = "skip_key" /\ vx < NUM_KEYS /\ keys[vx]
        \/ arm = "skip_not_key" /\ vx < NUM_KEYS /\ ~keys[vx]
        \/ arm = "wait_key" /\ \A k \in 0 .. NUM_KEYS - 1 : ~keys[k]

(* C1: a step executes the word memory[PC] * 256 + memory[PC+1], and when   *)
(* that instruction is no jump, call, return, taken skip or unsatisfied     *)
(* key-wait, PC after the step is PC before the step plus 2.                *)
C1_StepAdvancesPcByTwo ==
    [][ (last'.act = "tick" /\ fault' = "none" /\ pc + 1 < MEMORY_SIZE)
          => /\ last'.op = WordAt(pc)
             /\ (~Diverts(last'.op) => pc' = pc + 2) ]_vars

(* C2: a step taken at an Fx0A instruction while no key latch is set leaves *)
(* PC at the address of that instruction and Vx (every register) unchanged, *)
(* so the same instruction is fetched by the next step.                     *)
C2_KeyWaitStutters ==
    [][ ( /\ last'.act = "tick"
          /\ pc + 1 < MEMORY_SIZE
          /\ decode(WordAt(pc)) = "wait_key"
          /\ \A k \in 0 .. NUM_KEYS - 1 : ~keys[k] )
          => /\ fault' = "none"
             /\ pc' = pc
             /\ v_registers' = v_registers
             /\ decode(WordAt(pc')) = "wait_key" ]_vars

(* C3: a step that faults leaves PC, memory, the registers, I, the stack,   *)
(* the stack pointer, the keys, the timers and the framebuffer as they were *)
(* before the step.                                                         *)
C3_FaultLeavesStateUnchanged ==
    [][ (fault = "none" /\ fault' # "none") => UNCHANGED cpuvars ]_vars
(* C6: the stack pointer stays in 0..16 through calls and returns; a call   *)
(* with 16 return addresses stored faults and a return on an empty stack    *)
(* faults, and the stack pointer is in 0..16 after the fault too.           *)
C6_StackPointerInRange ==
    [][ (last'.act = "tick" /\ last'.op >= 0)
          => /\ stack_pointer' \in 0 .. STACK_SIZE
             /\ (decode(last'.op) = "call" /\ stack_pointer = STACK_SIZE
                   => fault' # "none")
             /\ (decode(last'.op) = "ret" /\ stack_pointer = 0
                   => fault' # "none") ]_vars

(* C9: a timer tick takes one from each timer that is positive, leaves a    *)
(* timer that is 0 at 0, and changes nothing else; the timers stay in       *)
(* 0..255 through every operation.                                          *)
C9_TimerTick ==
    [][ /\ delay_timer' \in 0 .. U8 - 1
        /\ sound_timer' \in 0 .. U8 - 1
        /\ last'.act = "tick_timers"
             => /\ delay_timer' = IF delay_timer > 0 THEN delay_timer - 1 ELSE 0
                /\ sound_timer' = IF sound_timer > 0 THEN sound_timer - 1 ELSE 0
                /\ fault' = "none"
                /\ UNCHANGED <<pc, memory, screen, v_registers, index_register,
                               stack, stack_pointer, keys>> ]_vars

(* a timer tick that found both timers running, at different values *)
C9_Witness ==
    /\ last.act = "tick_timers"
    /\ delay_timer = 1
    /\ sound_timer = 2

----------------------------------------------------------------------------
(* The stack on its own, as tests::test_stack_operations drives it: k       *)
(* addresses are pushed on the stack of a new machine, then popped.         *)

MaxPushes == 17

StackBases == {1, 513, 65519}

StackStrides == {1, 273}

(* the i-th address pushed *)
Addr(i) == (host.base + i * host.stride) % U16

InitStack ==
    /\ IsCpu(new)
    /\ fault = "none"
    /\ overflow_checks \in BOOLEAN
    /\ last = NoLast
    /\ \E k \in 1 .. MaxPushes, base \in StackBases, stride \in StackStrides :
          host = [k |-> k, base |-> base, stride |-> stride,
                  pushed |-> 0, popped |-> <<>>]

PushAddr ==
    /\ fault = "none"
    /\ host.pushed < host.k
    /\ host.popped = <<>>
    /\ Done("push", Addr(host.pushed + 1), push(Self, Addr(host.pushed + 1)))
    /\ host' = [host EXCEPT !.pushed = @ + 1]

PopAddr ==
    /\ fault = "none"
    /\ host.pushed = host.k
    /\ Len(host.popped) < host.k
    /\ LET r == pop(Self) IN
          /\ Done("pop", 0, r)
          /\ host' = [host EXCEPT !.popped = Append(@, r.ret)]

NextStack == PushAddr \/ PopAddr

SpecStack == InitStack /\ [][NextStack]_vars

(* C7: after k <= 16 pushes on an empty stack, the pops return the          *)
(* addresses pushed in reverse order and the k-th pop leaves the stack      *)
(* empty; the first 16 pushes succeed and the 17th is a fault.              *)
C7_StackLifo ==
    /\ (fault # "none" <=> host.pushed > STACK_SIZE)
    /\ fault = "none" =>
          /\ stack_pointer = host.pushed - Len(host.popped)
          /\ \A j \in 1 .. Len(host.popped) :
                host.popped[j] = Addr(host.k - j + 1)

(* 16 addresses pushed and popped again *)
C7_Witness ==
    /\ host.k = STACK_SIZE
    /\ Len(host.popped) = STACK_SIZE
    /\ stack_pointer = 0
    /\ fault = "none"
    /\ host.popped[1] # host.popped[STACK_SIZE]
----------------------------------------------------------------------------
(* One instruction on a prepared machine, as the unit tests of cpu.rs run   *)
(* it: the fields of a new machine are set, then cpu.execute(op) is called. *)

ExecOnce ==
    /\ fault = "none"
    /\ ~host.done
    /\ \E rng \in RandBytes : Done("execute", host.op, execute(Self, host.op, rng))
    /\ host' = [host EXCEPT !.done = TRUE]

(* every 16-bit word, on a new machine *)
Words == 0 .. U16 - 1

InitDecode ==
    /\ IsCpu(new)
    /\ fault = "none"
    /\ overflow_checks \in BOOLEAN
    /\ last = NoLast
    /\ \E op \in Words : host = [op |-> op, done |-> FALSE]

SpecDecode == InitDecode /\ [][ExecOnce]_vars

(* the instruction table: the rows a word can match *)
InTable(op) ==
    LET a == digit_one(op)
        b == digit_two(op)
        c == digit_three(op)
        d == digit_four(op)
    IN  \/ a = 0 /\ <<b, c, d>> \in {<<0, 0, 0>>, <<0, 14, 0>>, <<0, 14, 14>>}
        \/ a \in {1, 2, 3, 4, 6, 7, 10, 11, 12, 13}
        \/ a \in {5, 9} /\ d = 0
        \/ a = 8 /\ d \in {0, 1, 2, 3, 4, 5, 6, 7, 14}
        \/ a = 14 /\ <<c, d>> \in {<<9, 14>>, <<10, 1>>}
        \/ a = 15 /\ <<c, d>> \in {<<0, 7>>, <<0, 10>>, <<1, 5>>, <<1, 8>>,
                                   <<1, 14>>, <<2, 9>>, <<3, 3>>, <<5, 5>>,
                                   <<6, 5>>}

(* C4: a word is an unknown-opcode fault exactly when it matches no row of  *)
(* the instruction table; such a word always faults, and changes nothing.   *)
C4_DecodeExhaustive ==
    host.done =>
        /\ (fault = "unknown_opcode" <=> ~InTable(host.op))
        /\ (~InTable(host.op) => IsCpu(new))

(* a word outside the table has faulted, one inside has run *)
C4_WitnessUnknown == host.done /\ host.op = 20497 /\ fault = "unknown_opcode"

----------------------------------------------------------------------------
(* The arithmetic instructions that write VF, on prepared registers *)

ByteSamples == {0, 1, 128, 255}

(* V0..VE alternate between two values, VF holds a third *)
RegFile(a, b, f) ==
    [r \in 0 .. NUM_V_REGISTERS - 1 |->
        IF r = 15 THEN f ELSE IF r % 2 = 0 THEN a ELSE b]

FlagOps ==
    {32768 + 256 * x + 16 * y + d : x \in 0 .. 15, y \in 0 .. 15,
                                    d \in {4, 5, 6, 7, 14}}

InitAlu ==
    /\ \E a \in ByteSamples, b \in ByteSamples, f \in ByteSamples :
          IsCpu([new EXCEPT !.v_registers = RegFile(a, b, f)])
    /\ fault = "none"
    /\ overflow_checks \in BOOLEAN
    /\ last = NoLast
    /\ \E op \in FlagOps : host = [op |-> op, done |-> FALSE]

SpecAlu == InitAlu /\ [][ExecOnce]_vars

(* the flag an arithmetic instruction computes from the operands *)
FlagRule(op, vx, vy) ==
    CASE digit_four(op) = 4 -> IF vx + vy > 255 THEN 1 ELSE 0
      [] digit_four(op) = 5 -> IF vx >= vy THEN 1 ELSE 0
      [] digit_four(op) = 7 -> IF vy >= vx THEN 1 ELSE 0
      [] digit_four(op) = 6 -> vx % 2
      [] digit_four(op) = 14 -> vx \div 128

(* C8: after 8xy4, 8xy5, 8xy7, 8xy6 and 8xyE, for every x and y, VF is the  *)
(* flag of the rule, computed from the operands before the instruction.     *)
C8_FlagFromRule ==
    [][ host'.done =>
          v_registers'[15] = FlagRule(host.op, v_registers[digit_two(host.op)],
                                      v_registers[digit_three(host.op)]) ]_vars
----------------------------------------------------------------------------
(* One step (fetch and execute) of a machine whose PC and I are near the    *)
(* ends of memory and of the u16 range, the instruction placed at PC.       *)

MemPcs == {512, 4094, 4095, 4096, 4350, 65535}

MemIs == {0, 4093, 4094, 4095, 4096, 65521, 65535}

(* D005, D12F, F033, F055, FF55, F065, FF65, F11E *)
MemOps == {53253, 53551, 61491, 61525, 65365, 61541, 65381, 61726}

(* memory with the word op at address a, when it fits *)
WithWord(mem, a, op) ==
    IF a + 1 < MEMORY_SIZE
    THEN MemSet(MemSet(mem, a, op \div 256), a + 1, op % 256)
    ELSE mem

InitMem ==
    /\ \E p \in MemPcs, i \in MemIs, op \in MemOps :
          /\ IsCpu([new EXCEPT !.pc = p,
                               !.index_register = i,
                               !.v_registers = RegFile(7, 9, 11),
                               !.memory = WithWord(new.memory, p, op)])
          /\ host = [op |-> op, done |-> FALSE]
    /\ fault = "none"
    /\ overflow_checks \in BOOLEAN
    /\ last = NoLast

StepOnce ==
    /\ fault = "none"
    /\ ~host.done
    /\ \E rng \in RandBytes :
          LET f == fetch(Self) IN
          Done("tick", IF f.panic = "none" THEN f.ret ELSE -1, tick(Self, rng))
    /\ host' = [host EXCEPT !.done = TRUE]

SpecMem == InitMem /\ [][StepOnce]_vars

(* C5: every index a step uses on memory is the address it stands for, not *)
(* that address wrapped, and is in 0..4095; the one exception is the last   *)
(* index of a step that faults on it.                                       *)
C5_MemoryIndexInRange ==
    \A i \in 1 .. Len(last.acc) :
        /\ last.acc[i].idx = last.acc[i].ideal
        /\ \/ last.acc[i].idx \in 0 .. MEMORY_SIZE - 1
           \/ i = Len(last.acc) /\ fault = "index_out_of_bounds"

(* a store that ran over the end of memory: it wrote 0xFFF, faulted on 0x1000 *)
C5_Witness ==
    /\ host.done
    /\ fault = "index_out_of_bounds"
    /\ Len(last.acc) = 4
    /\ last.acc[4].idx = MEMORY_SIZE
    /\ MemGet(memory, MEMORY_SIZE - 1) = 7

----------------------------------------------------------------------------
(* The host loop, main.rs:43-76: the events are polled, TICKS_PER_FRAME     *)
(* steps are run, the screen is drawn, and so on until the window is closed *)

TICKS_PER_FRAME == 10

(* C013 at 0x200, 1300; F015 at 0x300, 1500; at 0x500, 1500 jumps to itself *)
RomDelayLoop ==
    Image(770, <<  <<0, <<192, 19, 0>> >>,
                   <<256, <<240, 21, 0>> >>,
                   <<768, <<21, 0>> >>  >>)

(* C013 at 0x200, 1300; F018 at 0x300, 1800; at 0x800, 1800 jumps to itself *)
RomSoundLoop ==
    Image(1538, <<  <<0, <<192, 19, 0>> >>,
                    <<256, <<240, 24, 0>> >>,
                    <<1536, <<24, 0>> >>  >>)

HostRoms == {RomDelayLoop, RomSoundLoop}

(* main.rs:36-41: the machine is constructed and the ROM loaded *)
InitHost ==
    /\ \E rom \in HostRoms : IsCpu(load(new, rom))
    /\ fault = "none"
    /\ overflow_checks \in BOOLEAN
    /\ last = NoLast
    /\ host = [at |-> "events", i |-> 0]

(* main.rs:44-69: the pending events; a key event, the window closed, none *)
PollEvents ==
    /\ fault = "none"
    /\ host.at = "events"
    /\ \/ /\ \E index \in HostKeys, pressed \in BOOLEAN :
                Done("keypress", index, keypress(Self, index, pressed))
          /\ host' = [at |-> "ticks", i |-> 0]
       \/ /\ Done("quit", 0, Self)
          /\ host' = [at |-> "exit", i |-> 0]
       \/ /\ Done("none", 0, Self)
          /\ host' = [at |-> "ticks", i |-> 0]

(* main.rs:71-73 *)
HostTick ==
    /\ fault = "none"
    /\ host.at = "ticks"
    /\ host.i < TICKS_PER_FRAME
    /\ \E rng \in RandBytes :
          LET f == fetch(Self) IN
          Done("tick", IF f.panic = "none" THEN f.ret ELSE -1, tick(Self, rng))
    /\ host' = [host EXCEPT !.i = @ + 1]

(* main.rs:75: draw_screen reads the framebuffer *)
DrawScreen ==
    /\ fault = "none"
    /\ host.at = "ticks"
    /\ host.i = TICKS_PER_FRAME
    /\ Done("draw_screen", 0, Self)
    /\ host' = [at |-> "events", i |-> 0]

NextHost == PollEvents \/ HostTick \/ DrawScreen

(* the loop keeps running until the window is closed or a step panics *)
SpecHost == InitHost /\ [][NextHost]_vars /\ WF_vars(NextHost)

(* whether the last operation was an instruction that writes a timer *)
WroteTimer ==
    last.act = "tick" /\ last.op >= 0 /\ decode(last.op) \in {"set_dt", "set_st"}

(* C10: while the loop runs, a timer that is not zero gets to zero, unless  *)
(* an instruction writes it again.                                          *)
C10_TimersReachZero ==
    /\ (delay_timer > 0 /\ ~WroteTimer)
          ~> (delay_timer = 0 \/ WroteTimer \/ fault # "none" \/ host.at = "exit")
    /\ (sound_timer > 0 /\ ~WroteTimer)
          ~> (sound_timer = 0 \/ WroteTimer \/ fault # "none" \/ host.at = "exit")
----------------------------------------------------------------------------
(* Store and load, as tests::test_store_v0_vx and tests::test_load_v0_vx    *)
(* run them: the registers and I of a new machine are set, Fn55 is          *)
(* executed, the registers are set again, Fn65 is executed.                 *)

(* register files whose 16 values differ from each other *)
RegPatterns ==
    { [r \in 0 .. NUM_V_REGISTERS - 1 |-> 16 + r],
      [r \in 0 .. NUM_V_REGISTERS - 1 |-> 255 - 3 * r],
      [r \in 0 .. NUM_V_REGISTERS - 1 |-> 0] }

(* I: in the font table, at the program, and near the end of memory *)
StoreIs == {0, 75, 512, 4080, 4088}

InitStoreLoad ==
    /\ \E v \in RegPatterns, i \in StoreIs, n \in 0 .. NUM_V_REGISTERS - 1 :
          /\ IsCpu([new EXCEPT !.v_registers = v, !.index_register = i])
          /\ host = [n |-> n, i |-> i, stored |-> v, changed |-> v, at |-> "store"]
    /\ fault = "none"
    /\ overflow_checks \in BOOLEAN
    /\ last = NoLast

(* cpu.execute(0xFn55) *)
StoreRegs ==
    /\ fault = "none"
    /\ host.at = "store"
    /\ Done("execute", 61525 + 256 * host.n, execute(Self, 61525 + 256 * host.n, 0))
    /\ host' = [host EXCEPT !.at = "change"]

(* cpu.v_registers = [...], between the two instructions *)
ChangeRegs ==
    /\ fault = "none"
    /\ host.at = "change"
    /\ \E w \in RegPatterns :
          /\ Done("set_registers", 0, [Self EXCEPT !.v_registers = w])
          /\ host' = [host EXCEPT !.changed = w, !.at = "load"]

(* cpu.execute(0xFn65) *)
LoadRegs ==
    /\ fault = "none"
    /\ host.at = "load"
    /\ Done("execute", 61541 + 256 * host.n, execute(Self, 61541 + 256 * host.n, 0))
    /\ host' = [host EXCEPT !.at = "done"]

NextStoreLoad == StoreRegs \/ ChangeRegs \/ LoadRegs

SpecStoreLoad == InitStoreLoad /\ [][NextStoreLoad]_vars

(* C11: for I + n <= 4095, Fn55 and then Fn65 at the same I bring V0..Vn    *)
(* back to their values before the store, whatever the registers held in    *)
(* between; no instruction of the two faults or changes I, the store        *)
(* changes no register and the load none of V(n+1)..VF.                     *)
C11_StoreLoadRoundTrip ==
    host.i + host.n <= MEMORY_SIZE - 1 =>
        /\ fault = "none"
        /\ index_register = host.i
        /\ host.at = "change" => v_registers = host.stored
        /\ host.at = "done" =>
              \A r \in 0 .. NUM_V_REGISTERS - 1 :
                  v_registers[r] = IF r <= host.n THEN host.stored[r]
                                   ELSE host.changed[r]

(* V0..V7 stored at the last 8 bytes of memory, cleared, and loaded back *)
C11_Witness ==
    /\ host.at = "done"
    /\ host.n = 7
    /\ host.i = 4088
    /\ host.stored[7] = 23
    /\ host.changed[7] = 0
    /\ v_registers[7] = 23
    /\ v_registers[8] = 0
----------------------------------------------------------------------------
(* Drawing, as tests::test_draw runs it: the sprite bytes, I, the           *)
(* registers and the screen of a new machine are set, and Dxyh is executed, *)
(* here twice in a row.                                                     *)

(* the rows of a sprite of 15 rows *)
SpriteRows == <<255, 129, 1, 128, 0, 60, 165, 90, 24, 231, 2, 64, 255, 16, 8>>

(* where the sprite rows lie, and where the last 6 of them lie again *)
SpriteAt == 768

SpriteTail == 4090

(* new.memory with the sprite rows at SpriteAt and at the end of memory *)
SpriteMemory ==
    [a \in (0 .. FONTSET_SIZE - 1) \cup (SpriteAt .. SpriteAt + 14)
            \cup {x \in SpriteTail .. MEMORY_SIZE - 1 :
                     SpriteRows[x - SpriteTail + 10] # 0} |->
        IF a < FONTSET_SIZE THEN FONTSET[a + 1]
        ELSE IF a < SpriteTail THEN SpriteRows[a - SpriteAt + 1]
        ELSE SpriteRows[a - SpriteTail + 10]]

(* I: the font table, the sprite, memory that is 0, the end of memory *)
DrawIs == {0, SpriteAt, 1024, SpriteTail}

DrawXs == {0, 1, 60, 255}

DrawYs == {0, 30, 255}

(* the screen before the first draw: dark, lit, every third cell lit *)
ScreenSamples ==
    { {}, 0 .. SCREEN_WIDTH * SCREEN_HEIGHT - 1,
      {i \in 0 .. SCREEN_WIDTH * SCREEN_HEIGHT - 1 : i % 3 = 0} }

(* D01h, D11h, DF1h, D0Fh for h in 0, 1, 5, 15 *)
DrawOps ==
    {53248 + 256 * xy[1] + 16 * xy[2] + h :
        xy \in {<<0, 1>>, <<1, 1>>, <<15, 1>>, <<0, 15>>}, h \in {0, 1, 5, 15}}

InitDraw ==
    /\ \E op \in DrawOps, px \in DrawXs, py \in DrawYs, i \in DrawIs,
          scr \in ScreenSamples :
          LET v == [r \in 0 .. NUM_V_REGISTERS - 1 |->
                       IF r = digit_three(op) THEN py
                       ELSE IF r = digit_two(op) THEN px ELSE 0]
          IN  /\ IsCpu([new EXCEPT !.memory = SpriteMemory,
                                   !.index_register = i,
                                   !.v_registers = v,
                                   !.screen = scr])
              /\ host = [op |-> op, n |-> 0, screen0 |-> scr, v0 |-> v, v1 |-> v]
    /\ fault = "none"
    /\ overflow_checks \in BOOLEAN
    /\ last = NoLast

(* cpu.execute(0xDxyh), the first and the second time *)
Draw ==
    /\ fault = "none"
    /\ host.n < 2
    /\ Done("execute", host.op, execute(Self, host.op, 0))
    /\ host' = [host EXCEPT !.n = @ + 1, !.v1 = v_registers]

NextDraw == Draw

SpecDraw == InitDraw /\ [][NextDraw]_vars

(* the cells of the sprite of h rows at I, put at column vx and row vy *)
SpriteCells(mem, i, h, vx, vy) ==
    { ((vx + rc[2]) % SCREEN_WIDTH) + SCREEN_WIDTH * ((vy + rc[1]) % SCREEN_HEIGHT) :
        rc \in { q \in (0 .. h - 1) \X (0 .. 7) :
                    (MemGet(mem, i + q[1]) \div (2 ^ (7 - q[2]))) % 2 = 1 } }

(* whether the h rows at I lie in memory *)
SpriteInMemory == index_register + digit_four(host.op) <= MEMORY_SIZE

(* whether the second draw found the coordinates of the first *)
SameCoordinates ==
    /\ host.v1[digit_two(host.op)] = host.v0[digit_two(host.op)]
    /\ host.v1[digit_three(host.op)] = host.v0[digit_three(host.op)]

(* C12, as claimed: the same Dxyh executed twice, with the same I, sprite   *)
(* bytes and coordinates, leaves the framebuffer as it was before the first *)
(* draw and VF = 1 after the second draw, for every height in 0..15 and all *)
(* row bytes.                                                               *)
C12_DoubleDraw ==
    (host.n = 2 /\ SpriteInMemory /\ SameCoordinates) =>
        /\ fault = "none"
        /\ screen = host.screen0
        /\ v_registers[15] = 1

(* C12, amended: the same Dxyh executed twice, with the same I, sprite      *)
(* bytes and coordinates, leaves the framebuffer as it was before the first *)
(* draw; VF after the second draw is 1 when a cell of the sprite was unlit  *)
(* before the first draw, and 0 when none was (the sprite has no bit set,   *)
(* or all its cells were lit).                                              *)
C12_DoubleDrawAmended ==
    (host.n = 2 /\ SpriteInMemory /\ SameCoordinates) =>
        /\ fault = "none"
        /\ screen = host.screen0
        /\ v_registers[15] =
              IF SpriteCells(memory, index_register, digit_four(host.op),
                             host.v0[digit_two(host.op)],
                             host.v0[digit_three(host.op)]) \ host.screen0 # {}
              THEN 1 ELSE 0

(* the 15 rows drawn twice across the right and the lower edge of a screen  *)
(* with every third cell lit                                                *)
C12_Witness ==
    /\ host.n = 2
    /\ host.op = 53279
    /\ index_register = SpriteAt
    /\ host.v0[0] = 60
    /\ host.v0[1] = 30
    /\ SameCoordinates
    /\ screen = host.screen0
    /\ 0 \in screen
    /\ 1 \notin screen
    /\ v_registers[15] = 1

(* C13: Dxyh toggles exactly the cells ((Vx + c) mod 64) + 64 * ((Vy + r)   *)
(* mod 32) for which bit 7 - c of memory[I + r] is set, r in 0..h-1 and c   *)
(* in 0..7, and leaves every other cell as it was; VF becomes 1 when one of *)
(* these cells was lit before the draw and 0 otherwise; memory, I and the   *)
(* registers other than VF do not change.                                   *)
C13_DrawTogglesSpriteCells ==
    [][ (host'.n = host.n + 1 /\ SpriteInMemory) =>
          LET cells == SpriteCells(memory, index_register, digit_four(host.op),
                                   v_registers[digit_two(host.op)],
                                   v_registers[digit_three(host.op)])
          IN  /\ fault' = "none"
              /\ screen' = (screen \ cells) \cup (cells \ screen)
              /\ v_registers' =
                    [v_registers EXCEPT ![15] = IF cells \cap screen # {} THEN 1 ELSE 0]
              /\ UNCHANGED <<memory, index_register>> ]_vars

(* one draw of the 15 rows at column 60 and row 30: the cells that wrap to  *)
(* column 0 of row 30 and to column 3 of row 0 were lit and are dark        *)
C13_Witness ==
    /\ host.n = 1
    /\ host.op = 53279
    /\ index_register = SpriteAt
    /\ host.v0[0] = 60
    /\ host.v0[1] = 30
    /\ 1920 \in host.screen0
    /\ 1920 \notin screen
    /\ 3 \in host.screen0
    /\ 3 \notin screen
    /\ v_registers[15] = 1
----------------------------------------------------------------------------
(* A claim about reset, checked under Spec *)

(* C14: after any run of steps, timer ticks and key events, reset leaves    *)
(* the machine as new() makes it: PC = 0x200, the font table in memory      *)
(* 0..79 and 0 in every other byte, the 16 registers 0, I = 0, the stack    *)
(* pointer and the 16 stack slots 0, the keys released, the timers 0, the   *)
(* framebuffer dark.                                                        *)
C14_ResetIsNew ==
    last.act = "reset" =>
        /\ fault = "none"
        /\ pc = 512
        /\ DOMAIN memory = 0 .. 79
        /\ \A a \in 0 .. 79 : memory[a] = FONTSET[a + 1]
        /\ \A r \in 0 .. 15 : v_registers[r] = 0
        /\ index_register = 0
        /\ stack_pointer = 0
        /\ \A s \in 0 .. 15 : stack[s] = 0
        /\ \A k \in 0 .. 15 : ~keys[k]
        /\ delay_timer = 0
        /\ sound_timer = 0
        /\ screen = {}
        /\ IsCpu(new)

(* the machine right after a reset, no ROM loaded yet *)
C14_Witness ==
    /\ last.act = "reset"
    /\ ~host.loaded
    /\ fault = "none"
    /\ IsCpu(new)
----------------------------------------------------------------------------
(* load on its own: a ROM image is loaded into a machine whose PC,          *)
(* registers, screen and memory are not those of a new machine.             *)

(* an image that fills memory to its last byte, and one a byte longer *)
RomFull == Image(MEMORY_SIZE - START_ADDRESS, << <<MEMORY_SIZE - START_ADDRESS - 1, <<7>> >> >>)

RomTooLong == Image(MEMORY_SIZE - START_ADDRESS + 1, << <<MEMORY_SIZE - START_ADDRESS, <<7>> >> >>)

LoadRoms == { <<>>, RomSets, RomCallRet, RomTimers, RomFull, RomTooLong }

LoadPcs == {512, 777}

InitLoad ==
    /\ \E rom \in LoadRoms, p \in LoadPcs, v \in RegPatterns, scr \in ScreenSamples,
          mem \in {FontMemory, SpriteMemory} :
          /\ IsCpu([new EXCEPT !.pc = p, !.v_registers = v, !.screen = scr,
                               !.memory = mem])
          /\ host = [rom |-> rom, done |-> FALSE]
    /\ fault = "none"
    /\ overflow_checks \in BOOLEAN
    /\ last = NoLast

(* cpu.load(&buffer) *)
LoadRom ==
    /\ fault = "none"
    /\ ~host.done
    /\ Done("load", 0, load(Self, host.rom))
    /\ host' = [host EXCEPT !.done = TRUE]

SpecLoad == InitLoad /\ [][LoadRom]_vars

(* C15: load of an image of at most 3584 bytes writes its bytes, as they    *)
(* are, to memory from 0x200 on, sets PC to 0x200 and leaves memory below   *)
(* 0x200, the registers and the framebuffer as they were; load of a longer  *)
(* image fails and writes nothing outside memory.                           *)
C15_LoadWritesProgram ==
    [][ host'.done =>
          IF Len(host.rom) <= 3584
          THEN /\ fault' = "none"
               /\ pc' = 512
               /\ \A k \in 1 .. Len(host.rom) : MemGet(memory', 511 + k) = host.rom[k]
               /\ \A a \in 0 .. 511 : MemGet(memory', a) = MemGet(memory, a)
               /\ UNCHANGED <<v_registers, screen>>
          ELSE /\ fault' # "none"
               /\ DOMAIN memory' \subseteq 0 .. MEMORY_SIZE - 1 ]_vars

(* the image of 3584 bytes loaded: its last byte is the last byte of        *)
(* memory, and the registers set before the load are still there            *)
C15_Witness ==
    /\ host.done
    /\ Len(host.rom) = 3584
    /\ fault = "none"
    /\ pc = 512
    /\ MemGet(memory, 4095) = 7
    /\ v_registers[3] = 19
    /\ screen # {}
----------------------------------------------------------------------------
(* Claims about the key-wait, calls and returns, checked under Spec *)

(* the lowest key whose latch is set *)
LowestKey == CHOOSE i \in 0 .. NUM_KEYS - 1 : keys[i] /\ \A j \in 0 .. i - 1 : ~keys[j]

(* C16: a step taken at an Fx0A instruction while a key latch is set puts   *)
(* the lowest index of a set latch in Vx, changes no latch and leaves PC    *)
(* at the instruction that follows the Fx0A, which the next step fetches.   *)
C16_KeyWaitTakesLowestKey ==
    [][ ( /\ last'.act = "tick"
          /\ pc + 1 < MEMORY_SIZE
          /\ decode(WordAt(pc)) = "wait_key"
          /\ \E k \in 0 .. NUM_KEYS - 1 : keys[k] )
          => /\ fault' = "none"
             /\ v_registers'[digit_two(WordAt(pc))] = LowestKey
             /\ keys' = keys
             /\ pc' = pc + 2 ]_vars

(* C17: a step executing 2nnn at address p stores p + 2, the address of the *)
(* instruction after the call, in the stack slot at the stack pointer,      *)
(* advances the stack pointer and sets PC = nnn; a step executing 00EE sets *)
(* PC to the address stored last and steps the stack pointer back, so that  *)
(* nested calls return in the reverse order of the calls.                   *)
C17_CallReturnPairing ==
    [][ (last'.act = "tick" /\ pc + 1 < MEMORY_SIZE) =>
          /\ (decode(WordAt(pc)) = "call" /\ stack_pointer < STACK_SIZE)
                => /\ fault' = "none"
                   /\ stack' = [stack EXCEPT ![stack_pointer] = pc + 2]
                   /\ stack_pointer' = stack_pointer + 1
                   /\ pc' = Nnn(WordAt(pc))
          /\ (decode(WordAt(pc)) = "ret" /\ stack_pointer \in 1 .. STACK_SIZE)
                => /\ fault' = "none"
                   /\ pc' = stack[stack_pointer - 1]
                   /\ stack_pointer' = stack_pointer - 1 ]_vars
----------------------------------------------------------------------------
(* The conditional skips, as tests::test_skip_vx_equal_nn and the tests     *)
(* after it run them: registers (and keys) of a new machine are set, the    *)
(* instruction is executed, PC is compared.                                 *)

SkipBytes == {0, 3, 15, 200}

(* 3xnn, 4xnn for x in 0, 1, F and nn in SkipBytes; 5xy0, 9xy0 for x, y in  *)
(* 0, 1, 2, F; Ex9E, ExA1 for x in 0, 1, F                                  *)
SkipOps ==
    {d * 4096 + 256 * x + nn : d \in {3, 4}, x \in {0, 1, 15}, nn \in SkipBytes}
    \cup {d * 4096 + 256 * x + 16 * y : d \in {5, 9}, x \in {0, 1, 2, 15},
                                        y \in {0, 1, 2, 15}}
    \cup {57344 + 256 * x + lo : x \in {0, 1, 15}, lo \in {158, 161}}

(* the key latches: none set, one, the first and the last, all *)
KeySamples ==
    { [k \in 0 .. NUM_KEYS - 1 |-> FALSE],
      [k \in 0 .. NUM_KEYS - 1 |-> k = 3],
      [k \in 0 .. NUM_KEYS - 1 |-> k \in {0, 15}],
      [k \in 0 .. NUM_KEYS - 1 |-> TRUE] }

SkipPcs == {512, 514, 4095}

InitSkip ==
    /\ \E a \in SkipBytes, b \in SkipBytes, ks \in KeySamples, p \in SkipPcs :
          IsCpu([new EXCEPT !.v_registers = RegFile(a, b, a),
                            !.keys = ks,
                            !.pc = p])
    /\ fault = "none"
    /\ overflow_checks \in BOOLEAN
    /\ last = NoLast
    /\ \E op \in SkipOps : host = [op |-> op, done |-> FALSE]

SpecSkip == InitSkip /\ [][ExecOnce]_vars

(* the condition under which the skip op is taken *)
SkipRule(op, vx, vy, ks) ==
    CASE digit_one(op) = 3 -> vx = Nn(op)
      [] digit_one(op) = 4 -> vx # Nn(op)
      [] digit_one(op) = 5 -> vx = vy
      [] digit_one(op) = 9 -> vx # vy
      [] digit_one(op) = 14 /\ Nn(op) = 158 -> ks[vx]
      [] digit_one(op) = 14 /\ Nn(op) = 161 -> ~ks[vx]

(* C18: a conditional skip adds 2 to PC when its condition holds, nothing   *)
(* when it does not, and changes nothing else: 3xnn skips iff Vx = nn, 4xnn *)
(* iff Vx # nn, 5xy0 iff Vx = Vy, 9xy0 iff Vx # Vy, Ex9E iff key Vx is      *)
(* pressed, ExA1 iff key Vx is not pressed (Vx in 0..15 for the last two).  *)
C18_SkipAddsTwo ==
    [][ ( /\ host'.done
          /\ digit_one(host.op) = 14 => v_registers[digit_two(host.op)] < NUM_KEYS )
          => /\ fault' = "none"
             /\ pc' = pc + IF SkipRule(host.op, v_registers[digit_two(host.op)],
                                      v_registers[digit_three(host.op)], keys)
                           THEN 2 ELSE 0
             /\ UNCHANGED <<memory, screen, v_registers, index_register, stack,
                            stack_pointer, keys, delay_timer, sound_timer>> ]_vars

(* ExA1 with V1 = 15 and key 15 pressed, not taken; PC stays *)
C18_Witness ==
    /\ host.done
    /\ host.op = 57761
    /\ v_registers[1] = 15
    /\ keys[15]
    /\ ~keys[1]
    /\ pc = 514
    /\ fault = "none"
----------------------------------------------------------------------------
(* The additions and subtractions, as tests::test_vx_add_vy and the tests   *)
(* after it run them                                                        *)

ArithBytes == {0, 1, 10, 128, 255}

ArithRegs == {0, 1, 2, 14, 15}

(* 8xy4, 8xy5, 8xy7 for x, y in ArithRegs; 7xnn for x in ArithRegs and nn   *)
(* in ArithBytes                                                            *)
ArithOps ==
    {32768 + 256 * x + 16 * y + d : x \in ArithRegs, y \in ArithRegs, d \in {4, 5, 7}}
    \cup {28672 + 256 * x + nn : x \in ArithRegs, nn \in ArithBytes}

InitArith ==
    /\ \E a \in ArithBytes, b \in ArithBytes, f \in ArithBytes :
          IsCpu([new EXCEPT !.v_registers = RegFile(a, b, f)])
    /\ fault = "none"
    /\ overflow_checks \in BOOLEAN
    /\ last = NoLast
    /\ \E op \in ArithOps : host = [op |-> op, done |-> FALSE]

SpecArith == InitArith /\ [][ExecOnce]_vars

(* what the instruction op leaves in Vx, from the operands before it *)
ArithResult(op, vx, vy) ==
    CASE digit_one(op) = 7 -> (vx + Nn(op)) % 256
      [] digit_one(op) = 8 /\ digit_four(op) = 4 -> (vx + vy) % 256
      [] digit_one(op) = 8 /\ digit_four(op) = 5 -> (vx - vy + 256) % 256
      [] digit_one(op) = 8 /\ digit_four(op) = 7 -> (vy - vx + 256) % 256

(* what the instruction op leaves in VF *)
ArithFlag(op, vx, vy, vf) ==
    CASE digit_one(op) = 7 -> vf
      [] digit_one(op) = 8 /\ digit_four(op) = 4 -> IF vx + vy > 255 THEN 1 ELSE 0
      [] digit_one(op) = 8 /\ digit_four(op) = 5 -> IF vx >= vy THEN 1 ELSE 0
      [] digit_one(op) = 8 /\ digit_four(op) = 7 -> IF vy >= vx THEN 1 ELSE 0

(* C19: for x # F, 8xy4 leaves Vx = (Vx + Vy) mod 256 and VF = 1 iff        *)
(* Vx + Vy > 255; 8xy5 leaves Vx = (Vx - Vy) mod 256 and VF = 1 iff         *)
(* Vx >= Vy; 8xy7 leaves Vx = (Vy - Vx) mod 256 and VF = 1 iff Vy >= Vx;    *)
(* 7xnn leaves Vx = (Vx + nn) mod 256 and VF as it was; no other register   *)
(* changes.                                                                 *)
C19_ArithmeticResults ==
    [][ (host'.done /\ digit_two(host.op) # 15) =>
          LET x == digit_two(host.op)
              vx == v_registers[x]
              vy == v_registers[digit_three(host.op)]
          IN  /\ fault' = "none"
              /\ v_registers' =
                    [r \in 0 .. NUM_V_REGISTERS - 1 |->
                        IF r = x THEN ArithResult(host.op, vx, vy)
                        ELSE IF r = 15 THEN ArithFlag(host.op, vx, vy, v_registers[15])
                        ELSE v_registers[r]] ]_vars

(* 8015 on V0 = V1 = 10: V0 = 0 and VF = 1 *)
C19_Witness ==
    /\ host.done
    /\ host.op = 32789
    /\ v_registers[0] = 0
    /\ v_registers[1] = 10
    /\ v_registers[2] = 10
    /\ v_registers[15] = 1
    /\ fault = "none"
----------------------------------------------------------------------------
(* BCD, as tests::test_bcd runs it: Vx and I of a new machine are set and   *)
(* Fx33 is executed.                                                        *)

BcdRegs == {0, 7, 15}

(* I: in the font table (the test's 69), at the program, the last three     *)
(* bytes of memory, and one byte further                                    *)
BcdIs == {69, 512, 4093, 4094}

InitBcd ==
    /\ \E val \in 0 .. U8 - 1, i \in BcdIs :
          IsCpu([new EXCEPT !.v_registers = RegFile(val, val, val),
                            !.index_register = i])
    /\ fault = "none"
    /\ overflow_checks \in BOOLEAN
    /\ last = NoLast
    /\ \E x \in BcdRegs : host = [op |-> 61491 + 256 * x, done |-> FALSE]

SpecBcd == InitBcd /\ [][ExecOnce]_vars

(* C20: for I + 2 <= 4095, Fx33 leaves memory[I] = Vx div 100,              *)
(* memory[I + 1] = (Vx div 10) mod 10 and memory[I + 2] = Vx mod 10, the    *)
(* digits of integer division: each is in 0..9 and 100 * memory[I] +        *)
(* 10 * memory[I + 1] + memory[I + 2] = Vx; no other byte of memory, no     *)
(* register and not I changes.                                              *)
C20_BcdDigits ==
    [][ (host'.done /\ index_register + 2 <= MEMORY_SIZE - 1) =>
          LET vx == v_registers[digit_two(host.op)]
              i == index_register
          IN  /\ fault' = "none"
              /\ MemGet(memory', i) = vx \div 100
              /\ MemGet(memory', i + 1) = (vx \div 10) % 10
              /\ MemGet(memory', i + 2) = vx % 10
              /\ \A k \in 0 .. 2 : MemGet(memory', i + k) \in 0 .. 9
              /\ 100 * MemGet(memory', i) + 10 * MemGet(memory', i + 1)
                    + MemGet(memory', i + 2) = vx
              /\ \A a \in (DOMAIN memory \cup DOMAIN memory') \ {i, i + 1, i + 2} :
                    MemGet(memory', a) = MemGet(memory, a)
              /\ UNCHANGED <<v_registers, index_register>> ]_vars

(* FF33 on VF = 199 at the last three bytes of memory: 1, 9, 9 *)
C20_Witness ==
    /\ host.done
    /\ host.op = 65331
    /\ v_registers[15] = 199
    /\ index_register = 4093
    /\ MemGet(memory, 4093) = 1
    /\ MemGet(memory, 4094) = 9
    /\ MemGet(memory, 4095) = 9
    /\ fault = "none"
----------------------------------------------------------------------------
(* The shifts, checked under SpecAlu *)

(* C21: for x # F, 8xy6 leaves Vx = Vx div 2 and VF = Vx mod 2, and 8xyE    *)
(* leaves Vx = (2 * Vx) mod 256 and VF = Vx div 128, of the Vx before the   *)
(* instruction: the same for every y and every Vy; VF is 0 or 1, and no     *)
(* register but Vx and VF changes, Vy neither.                              *)
C21_ShiftsActOnVx ==
    [][ (host'.done /\ digit_four(host.op) \in {6, 14} /\ digit_two(host.op) # 15) =>
          LET x == digit_two(host.op)
              vx == v_registers[x]
          IN  /\ fault' = "none"
              /\ v_registers'[15] \in {0, 1}
              /\ v_registers' =
                    [r \in 0 .. NUM_V_REGISTERS - 1 |->
                        IF r = x
                        THEN IF digit_four(host.op) = 6 THEN vx \div 2
                             ELSE (2 * vx) % 256
                        ELSE IF r = 15
                        THEN IF digit_four(host.op) = 6 THEN vx % 2
                             ELSE vx \div 128
                        ELSE v_registers[r]] ]_vars

(* 8126 on V1 = 255, V2 = 0: V1 = 127, VF = 1, V2 = 0 *)
C21_Witness ==
    /\ host.done
    /\ host.op = 33062
    /\ v_registers[1] = 127
    /\ v_registers[3] = 255
    /\ v_registers[2] = 0
    /\ v_registers[15] = 1
    /\ fault = "none"
----------------------------------------------------------------------------
(* Clear screen, as tests::test_cls runs it: the screen of a new machine is *)
(* set and 00E0 is executed; here the other fields are set too.             *)

ClsTimers == {0, 7}

InitCls ==
    /\ \E scr \in ScreenSamples, v \in RegPatterns, mem \in {FontMemory, SpriteMemory},
          t \in ClsTimers, sp \in {0, 2} :
          /\ IsCpu([new EXCEPT !.screen = scr,
                               !.v_registers = v,
                               !.memory = mem,
                               !.delay_timer = t,
                               !.sound_timer = t,
                               !.index_register = SpriteAt,
                               !.stack = [s \in 0 .. STACK_SIZE - 1 |->
                                             IF s < sp THEN 513 + s ELSE 0],
                               !.stack_pointer = sp])
          /\ host = [op |-> 224, done |-> FALSE, screen0 |-> scr]
    /\ fault = "none"
    /\ overflow_checks \in BOOLEAN
    /\ last = NoLast

SpecCls == InitCls /\ [][ExecOnce]_vars

(* C22: 00E0 leaves each of the 64 * 32 cells of the framebuffer unlit,     *)
(* whatever was lit before, and changes no register, VF neither, no byte of *)
(* memory, no stack slot and no timer.                                      *)
C22_ClearScreen ==
    [][ host'.done =>
          /\ fault' = "none"
          /\ \A i \in 0 .. SCREEN_WIDTH * SCREEN_HEIGHT - 1 : ~Lit(screen', i)
          /\ screen' = {}
          /\ UNCHANGED <<v_registers, index_register, memory, stack, stack_pointer,
                         delay_timer, sound_timer>> ]_vars

(* the lit screen cleared; VF, the timers and the stack as they were set *)
C22_Witness ==
    /\ host.done
    /\ host.screen0 = 0 .. SCREEN_WIDTH * SCREEN_HEIGHT - 1
    /\ screen = {}
    /\ v_registers[15] = 31
    /\ delay_timer = 7
    /\ stack_pointer = 2
    /\ stack[1] = 514
    /\ fault = "none"
----------------------------------------------------------------------------
(* One step in small steps: CPU::tick with the loops of CPU::execute run    *)
(* one iteration at a time.  The fields of the machine are the variables,   *)
(* as they are while the step runs; host holds the position in the code     *)
(* and the locals of the loops.                                             *)

(* the arms of execute that loop *)
LoopArms == {"draw", "wait_key", "store", "load"}

(* the words of the arms that loop, with several heights and counts, and    *)
(* words of arms that do not:                                               *)
(* 0000 00E0 00EE 1234 2345 D010 D015 D01F F00A F10A F055 FF55 F065 FF65    *)
StepOps ==
    { 0, 224, 238, 4660, 9029, 53264, 53269, 53279, 61450, 61706, 61525, 65365,
      61541, 65381 }

(* I: the font table, and the last bytes of memory *)
StepIs == {0, 4090, 4095}

InitStep ==
    /\ \E op \in StepOps, i \in StepIs, ks \in KeySamples :
          /\ IsCpu([new EXCEPT !.memory = WithWord(new.memory, START_ADDRESS, op),
                               !.index_register = i,
                               !.v_registers = RegFile(7, 9, 11),
                               !.keys = ks,
                               !.stack = [s \in 0 .. STACK_SIZE - 1 |->
                                             IF s = 0 THEN 777 ELSE 0],
                               !.stack_pointer = 1])
          /\ host = [at |-> "idle", op |-> op, arm |-> "none", i |-> 0, n |-> 0,
                     flipped |-> FALSE, pressed |-> FALSE, draw_x |-> 0,
                     draw_y |-> 0,
                     start |-> [new EXCEPT
                                   !.memory = WithWord(new.memory, START_ADDRESS, op),
                                   !.index_register = i,
                                   !.v_registers = RegFile(7, 9, 11),
                                   !.keys = ks,
                                   !.stack = [s \in 0 .. STACK_SIZE - 1 |->
                                                 IF s = 0 THEN 777 ELSE 0],
                                   !.stack_pointer = 1],
                     rng |-> 0]
    /\ fault = "none"
    /\ overflow_checks \in BOOLEAN
    /\ last = NoLast

(* tick: fetch, the match, and the arm when it has no loop; for an arm with *)
(* a loop, the statements before the loop                                   *)
StepBegin ==
    /\ fault = "none"
    /\ host.at = "idle"
    /\ \E rng \in RandBytes :
          LET f == fetch(Self)
              arm == IF f.panic = "none" THEN decode(f.ret) ELSE "none"
          IN  IF arm \in LoopArms
              THEN /\ Done("fetch", f.ret, f)
                   /\ host' = [host EXCEPT !.at = "loop", !.arm = arm, !.rng = rng,
                                  !.draw_x = f.v_registers[digit_two(f.ret)],
                                  !.draw_y = f.v_registers[digit_three(f.ret)]]
              ELSE /\ Done("tick", IF f.panic = "none" THEN f.ret ELSE -1,
                           IF f.panic = "none" THEN execute(f, f.ret, rng) ELSE f)
                   /\ host' = [host EXCEPT !.at = "returned", !.arm = arm,
                                           !.rng = rng]

(* the test at the head of the loop of an arm: whether iteration i runs *)
loop_continues(arm, op, i, pressed) ==
    CASE arm = "draw" -> i < digit_four(op)
      [] arm = "wait_key" -> i < NUM_KEYS /\ ~pressed
      [] arm = "store" -> i <= digit_two(op)
      [] arm = "load" -> i <= digit_two(op)

(* one row of DRAW: the body of for current_y in 0..height *)
draw_row(c, flipped, draw_x, draw_y, current_y) ==
    LET sum == c.index_register + current_y IN
    IF sum >= U16 /\ overflow_checks
    THEN [c |-> Panic(c, "overflow"), flipped |-> flipped]
    ELSE LET address == sum % U16
             c1 == Log(c, sum, address)
         IN  IF address >= MEMORY_SIZE
             THEN [c |-> Panic(c1, "index_out_of_bounds"), flipped |-> flipped]
             ELSE LET d == draw_cols([screen |-> c.screen, flipped |-> flipped],
                                     MemGet(c.memory, address), draw_x, draw_y,
                                     current_y, 0)
                  IN  [c |-> [c1 EXCEPT !.screen = d.screen], flipped |-> d.flipped]

(* one iteration of the loop of an arm *)
StepIterate ==
    /\ fault = "none"
    /\ host.at = "loop"
    /\ loop_continues(host.arm, host.op, host.i, host.pressed)
    /\ CASE host.arm = "draw" ->
              LET r == draw_row(Self, host.flipped, host.draw_x, host.draw_y, host.i)
              IN  /\ Done("draw_row", host.op, r.c)
                  /\ host' = [host EXCEPT !.i = @ + 1, !.n = @ + 8,
                                          !.flipped = r.flipped]
         [] host.arm = "wait_key" ->
              IF keys[host.i]
              THEN /\ Done("wait_key_found", host.op,
                           SetV(Self, digit_two(host.op), host.i))
                   /\ host' = [host EXCEPT !.n = @ + 1, !.pressed = TRUE]
              ELSE /\ Done("wait_key_scan", host.op, Self)
                   /\ host' = [host EXCEPT !.i = @ + 1, !.n = @ + 1]
         [] host.arm = "store" ->
              /\ Done("store_register", host.op, store_loop(Self, host.i, host.i))
              /\ host' = [host EXCEPT !.i = @ + 1, !.n = @ + 1]
         [] host.arm = "load" ->
              /\ Done("load_register", host.op, load_loop(Self, host.i, host.i))
              /\ host' = [host EXCEPT !.i = @ + 1, !.n = @ + 1]

(* the key-wait that scans the latches again when it found none set *)
wait_key_end_rescan(pressed) ==
    IF pressed THEN [at |-> "returned", i |-> NUM_KEYS] ELSE [at |-> "loop", i |-> 0]

(* where the key-wait goes after the scan of the latches: execute returns *)
wait_key_end(pressed) == [at |-> "returned", i |-> NUM_KEYS]

(* the statements after the loop of an arm, and the return of execute and   *)
(* of tick                                                                  *)
StepReturn ==
    /\ fault = "none"
    /\ host.at = "loop"
    /\ ~loop_continues(host.arm, host.op, host.i, host.pressed)
    /\ CASE host.arm = "draw" ->
              /\ Done("tick", host.op, SetV(Self, 15, IF host.flipped THEN 1 ELSE 0))
              /\ host' = [host EXCEPT !.at = "returned"]
         [] host.arm = "wait_key" ->
              /\ Done("tick", host.op, IF ~host.pressed THEN SubPc(Self, 2) ELSE Self)
              /\ host' = [host EXCEPT !.at = wait_key_end(host.pressed).at,
                                      !.i = wait_key_end(host.pressed).i]
         [] host.arm \in {"store", "load"} ->
              /\ Done("tick", host.op, Self)
              /\ host' = [host EXCEPT !.at = "returned"]

NextStep == StepBegin \/ StepIterate \/ StepReturn

(* the thread that called tick keeps running it *)
SpecStep == InitStep /\ [][NextStep]_vars /\ WF_vars(NextStep)

(* the step in small steps ends in the state tick computes in one piece *)
StepAgreesWithTick ==
    (host.at = "returned" \/ fault # "none") =>
        LET t == tick(host.start @@ [panic |-> "none", acc |-> <<>>, ret |-> 0],
                      host.rng)
        IN  fault = t.panic /\ IsCpu(t)

(* the bound on the iterations of the loop of an arm *)
MaxIterations(arm) ==
    CASE arm = "draw" -> 15 * 8
      [] arm = "wait_key" -> NUM_KEYS
      [] arm \in {"store", "load"} -> NUM_V_REGISTERS
      [] OTHER -> 0

(* C23: every step ends: it returns to the caller or faults, after at most  *)
(* 15 rows of 8 columns in a draw, 16 latches in a key-wait, 16 registers   *)
(* in a store or a load; the step at an Fx0A with no key pressed returns    *)
(* too.                                                                     *)
C23_StepTerminates ==
    /\ <>(host.at = "returned" \/ fault # "none")
    /\ [](host.n <= MaxIterations(host.arm))
    /\ (host.arm = "wait_key" /\ \A k \in 0 .. NUM_KEYS - 1 : ~keys[k])
          ~> (host.at = "returned" /\ host.n = NUM_KEYS /\ fault = "none")

(* the key-wait that scanned the 16 latches, found none set and returned,   *)
(* PC moved back                                                            *)
C23_Witness ==
    /\ host.at = "returned"
    /\ host.arm = "wait_key"
    /\ host.n = NUM_KEYS
    /\ ~host.pressed
    /\ pc = 511
    /\ fault = "none"
----------------------------------------------------------------------------
(* The font table, checked under Spec *)

(* memory[0x000..0x04F] holds the 80 font bytes *)
FontIntact == \A a \in 0 .. FONTSET_SIZE - 1 : MemGet(memory, a) = FONTSET[a + 1]

(* I points at the 5-byte glyph of digit d *)
PointsAtGlyph(d) ==
    /\ index_register = 5 * d
    /\ \A j \in 0 .. 4 : MemGet(memory, index_register + j) = FONTSET[5 * d + j + 1]

(* the step taken last executed Fx29 *)
FontStep == last.act = "tick" /\ fault = "none" /\ decode(last.op) = "font"

(* C24 (as stated): after any sequence of steps, timer ticks and key events *)
(* that follows construction or reset, memory[0x000..0x04F] holds the 80    *)
(* font bytes, and Fx29 with Vx in 0..15 leaves I = 5 * Vx pointing at the  *)
(* glyph of digit Vx.                                                       *)
C24_FontPreserved ==
    /\ FontIntact
    /\ (FontStep /\ v_registers[digit_two(last.op)] <= 15)
          => PointsAtGlyph(v_registers[digit_two(last.op)])

(* C24 (amended): construction and reset put the 80 font bytes in           *)
(* memory[0x000..0x04F]; afterwards a byte of the table changes only in a   *)
(* step that executes Fx33 or Fx55 with I in 0x000..0x04F, or in a reset,   *)
(* which restores the table; timer ticks, key events and every              *)
(* other step leave it as it is.  Fx29 sets I = 5 * Vx, which points at the *)
(* glyph of digit Vx (Vx in 0..15) while the table is as constructed.       *)
C24_FontPreservedAmended ==
    [][ /\ (\E a \in 0 .. FONTSET_SIZE - 1 : MemGet(memory', a) # MemGet(memory, a))
           => \/ /\ last'.act = "tick"
                 /\ last'.op >= 0
                 /\ decode(last'.op) \in {"bcd", "store"}
                 /\ index_register < FONTSET_SIZE
              \/ last'.act = "reset"
        /\ last'.act = "reset" => FontIntact'
        /\ (FontStep' /\ last'.act = "tick")
              => /\ index_register' = 5 * v_registers[digit_two(last'.op)]
                 /\ v_registers' = v_registers
                 /\ (FontIntact' /\ v_registers[digit_two(last'.op)] <= 15)
                       => PointsAtGlyph(v_registers[digit_two(last'.op)])' ]_vars

(* Fx29 after an Fx55 that wrote V0 = 3 over the first byte of the font     *)
(* table: I = 15, the glyph of 3, which is as constructed                   *)
C24_Witness ==
    /\ FontStep
    /\ v_registers[0] = 3
    /\ index_register = 15
    /\ MemGet(memory, 0) = 3
    /\ ~FontIntact
    /\ \A j \in 0 .. 4 : MemGet(memory, 15 + j) = FONTSET[15 + j + 1]
----------------------------------------------------------------------------
(* The keypad: key events from the host and the instructions that read a    *)
(* latch, on a machine with keys held and a key index in a register         *)

(* register values: key indices, and bytes past the last key; the low 4     *)
(* bits of 19 are 3                                                         *)
KeypadBytes == {0, 3, 15, 16, 19, 255}

(* the indices the host passes to keypress, a usize *)
KeypadIndices == {0, 3, 15, 16, 19}

(* E09E E0A1 E19E E1A1 *)
KeypadOps == {57502, 57505, 57758, 57761}

InitKeypad ==
    /\ \E a \in KeypadBytes, b \in {3, 16}, ks \in KeySamples :
          IsCpu([new EXCEPT !.v_registers = RegFile(a, b, 0), !.keys = ks])
    /\ fault = "none"
    /\ overflow_checks \in BOOLEAN
    /\ last = NoLast
    /\ \E op \in KeypadOps :
          host = [op |-> op, done |-> FALSE, index |-> 0, pressed |-> FALSE]

(* a key event: cpu.keypress(index, pressed) *)
KeyEvent ==
    /\ fault = "none"
    /\ \E index \in KeypadIndices, pressed \in BOOLEAN :
          /\ Done("keypress", index, keypress(Self, index, pressed))
          /\ host' = [host EXCEPT !.index = index, !.pressed = pressed]

NextKeypad == KeyEvent \/ ExecOnce

SpecKeypad == InitKeypad /\ [][NextKeypad]_vars

(* C25: keypress(index, pressed) with index in 0..15 sets that latch to     *)
(* pressed and changes nothing else; keypress with index >= 16, and Ex9E    *)
(* or ExA1 executed with Vx >= 16, fault and change nothing: no latch is    *)
(* read or written, and Vx is not cut to its low 4 bits.                    *)
C25_KeypadIndexInRange ==
    [][ /\ (last'.act = "keypress" /\ host'.index < NUM_KEYS)
           => /\ fault' = "none"
              /\ keys' = [keys EXCEPT ![host'.index] = host'.pressed]
              /\ UNCHANGED <<pc, memory, screen, v_registers, index_register,
                             stack, stack_pointer, delay_timer, sound_timer>>
        /\ (last'.act = "keypress" /\ host'.index >= NUM_KEYS)
           => /\ fault' = "index_out_of_bounds"
              /\ UNCHANGED <<pc, memory, screen, v_registers, index_register,
                             stack, stack_pointer, keys, delay_timer, sound_timer>>
        /\ (last'.act = "execute" /\ v_registers[digit_two(host.op)] >= NUM_KEYS)
           => /\ fault' = "index_out_of_bounds"
              /\ UNCHANGED <<pc, memory, screen, v_registers, index_register,
                             stack, stack_pointer, keys, delay_timer, sound_timer>>
        /\ (last'.act = "execute" /\ v_registers[digit_two(host.op)] < NUM_KEYS)
           => /\ fault' = "none"
              /\ keys' = keys ]_vars

(* E09E with V0 = 19 after key 3 was pressed: a fault, PC where it was *)
C25_Witness ==
    /\ host.done
    /\ host.op = 57502
    /\ v_registers[0] = 19
    /\ host.index = 3
    /\ host.pressed
    /\ keys[3]
    /\ pc = START_ADDRESS
    /\ fault = "index_out_of_bounds"
====
